---- MODULE Spec2Model ----
(***************************************************************************)
(* Model of src/server.js: a WebSocket signaling relay.                    *)
(*                                                                         *)
(* The program keeps two stores: the Map `sockets` (userId -> ws, the      *)
(* Connection Registry) and the `users` object of the state file           *)
(* online.json, read by loadOnline and written by saveOnline (the Presence *)
(* Store).  Node runs every handler to completion on one thread, so each   *)
(* handler (connection, message, pong, close, the heartbeat interval) is   *)
(* one atomic action.                                                      *)
(***************************************************************************)
EXTENDS Integers, Sequences, FiniteSets, TLC

\* ---------------------------------------------------------------- bounds
MaxConns == 2
MaxIds == 2

Conns == 1..MaxConns
\* Ids stands for distinct non-empty identifier strings.
Ids == 1..MaxIds
\* myId = null (line 81), or the undefined / "" a hello may carry: all falsy.
NoId == 0
\* sockets.get(k) === undefined
NoConn == 0

Names == {"n1", "n2"}
Avatars == {"x"}
Bodies == {"sdp"}
FwdTypes == {"offer", "answer", "ice", "end"}

\* ------------------------------------------------------------ JSON values
\* A parsed JSON value.  kind is "object", "null", or "other" for a number,
\* string, boolean or array (msg.type is undefined on all of these and the
\* handler reads nothing else of them); for an object, type is
\* msg.type ("" when absent), me is <<>> when msg.me is absent or null and
\* <<[id, name, avatar]>> otherwise, to is msg.to (NoId when absent), body
\* stands for the remaining payload fields, users for the users array.
Entry(i, n, a) == [id |-> i, name |-> n, avatar |-> a]
Value(k, t, m, to, b, us) ==
  [kind |-> k, type |-> t, me |-> m, to |-> to, body |-> b, users |-> us]
Obj(t, m, to, b) == Value("object", t, m, to, b, <<>>)
Scalar(k) == Value(k, "", <<>>, NoId, "", <<>>)

HelloValues ==
  { Obj("hello", <<Entry(i, n, a)>>, NoId, "") :
      i \in (Ids \cup {NoId}), n \in Names, a \in Avatars }
  \cup { Obj("hello", <<>>, NoId, "") }
ForwardValues ==
  { Obj(t, <<>>, to, b) : t \in FwdTypes, to \in (Ids \cup {NoId}), b \in Bodies }
OtherValues ==
  { Obj("pong", <<>>, NoId, ""), Obj("bye", <<>>, NoId, ""), Obj("", <<>>, NoId, ""),
    Scalar("null"), Scalar("other") }
Values == HelloValues \cup ForwardValues \cup OtherValues

\* A text frame: ok says whether the text is JSON at all, sp whether it
\* carries insignificant whitespace, val the value it denotes.
Garbage == [ok |-> FALSE, sp |-> FALSE, val |-> Scalar("null")]
\* The frames clients send: text that is no JSON, and JSON texts laid out
\* with whitespace, which JSON.stringify never writes.
Texts == { [ok |-> TRUE, sp |-> TRUE, val |-> v] : v \in Values } \cup {Garbage}

\* JSON.parse(buf.toString()) of a text that is JSON (line 89).
JSONparse(text) == text.val
\* JSON.stringify(v): the compact text of v (lines 74, 109).
JSONstringify(v) == [ok |-> TRUE, sp |-> FALSE, val |-> v]

\* msg.type (line 92): undefined on numbers, strings, booleans and arrays.
TypeOf(msg) == IF msg.kind = "object" THEN msg.type ELSE ""
\* msg.me?.id (line 94)
MeId(msg) == IF msg.me = <<>> THEN NoId ELSE msg.me[1].id

\* ------------------------------------------------------------------ state
VARIABLES
  status,    \* status[c]: "new" (not yet accepted), "open" (readyState OPEN),
             \*   "closing" (terminated or closing, close event pending), "closed"
  myId,      \* myId[c]: the closure variable of connection c (line 81)
  isAlive,   \* isAlive[c]: ws.isAlive (line 84)
  sockets,   \* the Map sockets in insertion order: <<[id, ws], ...>> (line 69)
  file,      \* Object.values(users) of online.json, in insertion order (line 19)
  disk,      \* "ok" or "failing": whether fs.writeFileSync succeeds
  crashed,   \* an exception escaped a handler: the process is gone
  ev,        \* the event handled by the last step
  out,       \* the ws.send calls of the last step, in order: <<[to, data], ...>>
  bcasts,    \* the user lists of the broadcastOnline calls of the last step
  pings,     \* the connections sent a ping frame by the last step
  res        \* the body of the HTTP response of the last step, <<>> when none

vars == <<status, myId, isAlive, sockets, file, disk, crashed, ev, out, bcasts, pings, res>>

\* ------------------------------------------------------- Map and object ops
Keys(seq) == { seq[i].id : i \in DOMAIN seq }
Has(seq, id) == \E i \in DOMAIN seq : seq[i].id = id
IndexOf(seq, id) == CHOOSE i \in DOMAIN seq : seq[i].id = id

\* A lookup that falls back on the first entry when the key is missing.
MapGetFirst(socks, id) ==
  IF Has(socks, id) THEN socks[IndexOf(socks, id)].ws
  ELSE IF socks # <<>> THEN socks[1].ws ELSE NoConn
\* sockets.get(id) (line 108)
MapGet(socks, id) == IF Has(socks, id) THEN socks[IndexOf(socks, id)].ws ELSE NoConn
\* sockets.set(id, ws) (line 97): an existing key keeps its place
MapSet(socks, id, ws) ==
  IF Has(socks, id)
  THEN [socks EXCEPT ![IndexOf(socks, id)] = [id |-> id, ws |-> ws]]
  ELSE Append(socks, [id |-> id, ws |-> ws])
\* sockets.delete(id) (lines 121, 136)
MapDelete(socks, id) == SelectSeq(socks, LAMBDA e : e.id # id)

\* A store that adds the entry without replacing the one under the same id.
UsersPutAppend(users, e) == Append(users, e)
\* state.users[id] = entry (line 100): an existing key keeps its place
UsersPut(users, e) ==
  IF Has(users, e.id)
  THEN [users EXCEPT ![IndexOf(users, e.id)] = e]
  ELSE Append(users, e)
\* A removal that leaves the entry in the file.
UsersDeleteNone(users, id) == users
\* delete state.users[id] (lines 123, 137)
UsersDelete(users, id) == SelectSeq(users, LAMBDA e : e.id # id)

\* loadOnline() (lines 22-25): the users of the state file
loadOnline == file

\* The presence message built by broadcastOnline (line 74)
OnlineMsg(users) == Value("object", "online", <<>>, NoId, "", users)

\* A broadcast that gives up at the first channel that is not open.
BroadcastSendsAbort(users, socks, st) ==
  LET closed == { i \in DOMAIN socks : st[socks[i].ws] # "open" }
      n == IF closed = {} THEN Len(socks)
           ELSE (CHOOSE i \in closed : \A j \in closed : i <= j) - 1
  IN [i \in 1..n |-> [to |-> socks[i].ws, data |-> JSONstringify(OnlineMsg(users))]]
\* The sends of broadcastOnline() (lines 71-78) over registry socks, with the
\* state file holding users and readyState given by st.
BroadcastSends(users, socks, st) ==
  LET open == SelectSeq(socks, LAMBDA e : st[e.ws] = "open")
  IN [i \in 1..Len(open) |->
        [to |-> open[i].ws, data |-> JSONstringify(OnlineMsg(users))]]

NoEvent == [op |-> "start", conn |-> NoConn, text |-> Garbage]
Event(op, c, text) == [op |-> op, conn |-> c, text |-> text]

\* The state files a start can find: none or an empty one (<<>>), or the file
\* a previous run of the server left behind, here with one user in it.
StateFiles == {<<>>, <<Entry(1, "n1", "x")>>}

Init ==
  /\ status = [c \in Conns |-> "new"]
  /\ myId = [c \in Conns |-> NoId]
  /\ isAlive = [c \in Conns |-> TRUE]
  /\ sockets = <<>>
  /\ file \in StateFiles
  /\ disk = "ok"
  /\ crashed = FALSE
  /\ ev = NoEvent
  /\ out = <<>>
  /\ bcasts = <<>>
  /\ pings = {}
  /\ res = <<>>

\* wss.on("connection") (lines 80-85)
Connect(c) ==
  /\ ~crashed
  /\ status[c] = "new"
  /\ status' = [status EXCEPT ![c] = "open"]
  /\ myId' = [myId EXCEPT ![c] = NoId]
  /\ isAlive' = [isAlive EXCEPT ![c] = TRUE]
  /\ ev' = Event("connection", c, Garbage)
  /\ out' = <<>> /\ bcasts' = <<>> /\ pings' = {} /\ res' = <<>>
  /\ UNCHANGED <<sockets, file, disk, crashed>>

\* saveOnline(state) (lines 26-28) returns normally; otherwise it throws.
WriteOk == disk = "ok"
\* What a failed fs.writeFileSync can leave: the old file, or a truncated one
\* (which loadOnline reads as { users: {} }).
FailedWrite(old) == {old, <<>>}

\* ws.on("message"), line 90: the text is not JSON, the handler returns.
MsgUnparseable(c, text) ==
  /\ ~text.ok
  /\ out' = <<>> /\ bcasts' = <<>>
  /\ UNCHANGED <<status, myId, isAlive, sockets, file, disk, crashed>>

\* line 92 on JSON null: reading msg.type throws a TypeError, which nothing
\* catches.
MsgThrows(c, text) ==
  /\ text.ok
  /\ JSONparse(text).kind = "null"
  /\ crashed' = TRUE
  /\ out' = <<>> /\ bcasts' = <<>>
  /\ UNCHANGED <<status, myId, isAlive, sockets, file, disk>>

\* lines 92-104: hello
MsgHello(c, text) ==
  LET msg == JSONparse(text)
      id == MeId(msg)
      socks1 == MapSet(sockets, id, c)
      state1 == UsersPut(loadOnline, Entry(id, msg.me[1].name, msg.me[1].avatar))
  IN /\ text.ok
     /\ msg.kind # "null"
     /\ TypeOf(msg) = "hello"
     /\ myId' = [myId EXCEPT ![c] = id]
     /\ IF id = NoId
        THEN /\ out' = <<>> /\ bcasts' = <<>>
             /\ UNCHANGED <<sockets, file, crashed>>
        ELSE /\ sockets' = socks1
             /\ IF WriteOk
                THEN /\ file' = state1
                     /\ out' = BroadcastSends(state1, socks1, status)
                     /\ bcasts' = <<state1>>
                     /\ UNCHANGED crashed
                ELSE /\ file' \in FailedWrite(file)
                     /\ crashed' = TRUE
                     /\ out' = <<>> /\ bcasts' = <<>>
     /\ UNCHANGED <<status, isAlive, disk>>

\* A relay that sends the message to every open registered channel.
ForwardSendsAll(msg, socks, st) ==
  LET open == SelectSeq(socks, LAMBDA e : st[e.ws] = "open")
  IN [i \in 1..Len(open) |-> [to |-> open[i].ws, data |-> JSONstringify(msg)]]
\* The ws.send calls of lines 108-109 for message msg.
ForwardSends(msg, socks, st) ==
  LET to == MapGet(socks, msg.to)
  IN IF to # NoConn /\ st[to] = "open"
     THEN <<[to |-> to, data |-> JSONstringify(msg)]>>
     ELSE <<>>

\* lines 106-111: offer / answer / ice / end
MsgForward(c, text) ==
  LET msg == JSONparse(text)
  IN /\ text.ok
     /\ msg.kind # "null"
     /\ TypeOf(msg) \in FwdTypes
     /\ out' = ForwardSends(msg, sockets, status)
     /\ bcasts' = <<>>
     /\ UNCHANGED <<status, myId, isAlive, sockets, file, disk, crashed>>

\* lines 113-116: the application-level pong
MsgPong(c, text) ==
  LET msg == JSONparse(text)
  IN /\ text.ok
     /\ msg.kind # "null"
     /\ TypeOf(msg) = "pong"
     /\ isAlive' = [isAlive EXCEPT ![c] = TRUE]
     /\ out' = <<>> /\ bcasts' = <<>>
     /\ UNCHANGED <<status, myId, sockets, file, disk, crashed>>

\* line 117: no branch matches, the handler ends.
MsgIgnored(c, text) ==
  LET msg == JSONparse(text)
  IN /\ text.ok
     /\ msg.kind # "null"
     /\ TypeOf(msg) \notin (FwdTypes \cup {"hello", "pong"})
     /\ out' = <<>> /\ bcasts' = <<>>
     /\ UNCHANGED <<status, myId, isAlive, sockets, file, disk, crashed>>

\* ws.on("message") (lines 87-117) for text frame `text` on connection c
OnMessage(c, text) ==
  /\ ~crashed
  /\ status[c] = "open"
  /\ ev' = Event("message", c, text)
  /\ pings' = {} /\ res' = <<>>
  /\ \/ MsgUnparseable(c, text)
     \/ MsgThrows(c, text)
     \/ MsgHello(c, text)
     \/ MsgForward(c, text)
     \/ MsgPong(c, text)
     \/ MsgIgnored(c, text)

\* ws.on("pong") (line 85): the transport-level pong frame
OnPong(c) ==
  /\ ~crashed
  /\ status[c] = "open"
  /\ isAlive' = [isAlive EXCEPT ![c] = TRUE]
  /\ ev' = Event("pong", c, Garbage)
  /\ out' = <<>> /\ bcasts' = <<>> /\ pings' = {} /\ res' = <<>>
  /\ UNCHANGED <<status, myId, sockets, file, disk, crashed>>

\* ws.on("close") (lines 119-127); readyState is CLOSED when it runs.
OnClose(c) ==
  LET st1 == [status EXCEPT ![c] = "closed"]
      socks1 == MapDelete(sockets, myId[c])
      state1 == UsersDelete(loadOnline, myId[c])
  IN /\ ~crashed
     /\ status[c] \in {"open", "closing"}
     /\ status' = st1
     /\ ev' = Event("close", c, Garbage)
     /\ pings' = {} /\ res' = <<>>
     /\ IF myId[c] = NoId
        THEN /\ out' = <<>> /\ bcasts' = <<>>
             /\ UNCHANGED <<sockets, file, crashed>>
        ELSE /\ sockets' = socks1
             /\ IF WriteOk
                THEN /\ file' = state1
                     /\ out' = BroadcastSends(state1, socks1, st1)
                     /\ bcasts' = <<state1>>
                     /\ UNCHANGED crashed
                ELSE /\ file' \in FailedWrite(file)
                     /\ crashed' = TRUE
                     /\ out' = <<>> /\ bcasts' = <<>>
     /\ UNCHANGED <<myId, isAlive, disk>>

\* A sweep that forgets to terminate the socket.
TerminateNothing(st, ws) == st
\* ws.terminate() (line 135): an open socket is destroyed, its close event
\* comes later; a closing or closed one is left as it is.
Terminate(st, ws) == IF st[ws] = "open" THEN [st EXCEPT ![ws] = "closing"] ELSE st

\* The verdict of line 134 on a registered socket.
IsDead(alive, ws) == alive[ws] = FALSE

\* The for loop of the heartbeat (lines 133-142) over the entries still to
\* visit, from loop state s = [sockets, file, isAlive, status, pings, threw].
RECURSIVE SweepLoop(_, _)
SweepLoop(entries, s) ==
  IF entries = <<>> \/ s.threw THEN s
  ELSE LET id == Head(entries).id
           ws == Head(entries).ws
       IN IF IsDead(s.isAlive, ws)
          THEN IF WriteOk
               THEN SweepLoop(Tail(entries),
                      [s EXCEPT !.status = Terminate(s.status, ws),
                                !.sockets = MapDelete(s.sockets, id),
                                !.file = UsersDelete(s.file, id)])
               ELSE [s EXCEPT !.status = Terminate(s.status, ws),
                              !.sockets = MapDelete(s.sockets, id),
                              !.threw = TRUE]
          ELSE SweepLoop(Tail(entries),
                 [s EXCEPT !.isAlive = [s.isAlive EXCEPT ![ws] = FALSE],
                           !.pings = IF s.status[ws] = "open"
                                     THEN s.pings \cup {ws} ELSE s.pings])

\* A tick that broadcasts the snapshot taken before its loop.
TickUsersBefore(before, after) == before
\* The users the tick's broadcastOnline() reads (line 143), given the state
\* file before the loop and after it: the call follows the loop.
TickUsers(before, after) == after

\* The setInterval callback (lines 132-144)
Heartbeat ==
  LET s == SweepLoop(sockets,
             [sockets |-> sockets, file |-> loadOnline, isAlive |-> isAlive,
              status |-> status, pings |-> {}, threw |-> FALSE])
  IN /\ ~crashed
     /\ ev' = Event("tick", NoConn, Garbage)
     /\ sockets' = s.sockets
     /\ isAlive' = s.isAlive
     /\ status' = s.status
     /\ pings' = s.pings
     /\ res' = <<>>
     /\ IF s.threw
        THEN /\ crashed' = TRUE
             /\ file' \in FailedWrite(s.file)
             /\ out' = <<>> /\ bcasts' = <<>>
        ELSE /\ file' = s.file
             /\ out' = BroadcastSends(TickUsers(loadOnline, s.file), s.sockets, s.status)
             /\ bcasts' = <<TickUsers(loadOnline, s.file)>>
             /\ UNCHANGED crashed
     /\ UNCHANGED <<myId, disk>>

\* A status answer that lists only the first user.
OnlineBodyFirst(users) ==
  JSONstringify(Value("object", "", <<>>, NoId, "",
                      IF users = <<>> THEN <<>> ELSE <<users[1]>>))
\* JSON.stringify({ users: Object.values(users) }) (line 49)
OnlineBody(users) == JSONstringify(Value("object", "", <<>>, NoId, "", users))

\* The HTTP handler on an online path (lines 47-51): GET /online
OnlineQuery ==
  /\ ~crashed
  /\ res' = <<OnlineBody(loadOnline)>>
  /\ ev' = Event("online", NoConn, Garbage)
  /\ out' = <<>> /\ bcasts' = <<>> /\ pings' = {}
  /\ UNCHANGED <<status, myId, isAlive, sockets, file, disk, crashed>>

\* fs.writeFileSync starts to fail (disk full, file not writable).
DiskFails ==
  /\ ~crashed
  /\ disk = "ok"
  /\ disk' = "failing"
  /\ UNCHANGED <<status, myId, isAlive, sockets, file, crashed, ev, out, bcasts, pings, res>>

Next ==
  \/ \E c \in Conns : Connect(c)
  \/ \E c \in Conns, text \in Texts : OnMessage(c, text)
  \/ \E c \in Conns : OnPong(c)
  \/ \E c \in Conns : OnClose(c)
  \/ Heartbeat
  \/ OnlineQuery

\* The relay with a state file that can always be written.
Spec == Init /\ [][Next]_vars

\* The relay with a state file whose writes can start to fail.
SpecDisk == Init /\ [][Next \/ DiskFails]_vars

\* The heartbeat timer of line 131 keeps firing while the process lives.
SpecFair == Init /\ [][Next]_vars /\ WF_vars(Heartbeat)

\* ================================================================ claims
\* The event of the last step, read from ev.
EvMessage(e) == e.op = "message" /\ e.text.ok /\ e.text.val.kind = "object"
EvHello(e) == EvMessage(e) /\ e.text.val.type = "hello"
EvHelloWithId(e) == EvHello(e) /\ MeId(e.text.val) # NoId
EvHelloNoId(e) == EvHello(e) /\ MeId(e.text.val) = NoId
EvForward(e) == EvMessage(e) /\ e.text.val.type \in FwdTypes
\* The entries of a list or registry under identifier id.
At(seq, id) == { i \in DOMAIN seq : seq[i].id = id }
\* The channel registered under id, NoConn when there is none.
Holder(socks, id) ==
  IF At(socks, id) = {} THEN NoConn ELSE socks[CHOOSE i \in At(socks, id) : TRUE].ws
\* The connections a step sent text frames to.
Receivers(sends) == { sends[i].to : i \in DOMAIN sends }
\* The registered channels that are open.
OpenRegistered(socks, st) == { socks[i].ws : i \in { j \in DOMAIN socks : st[socks[j].ws] = "open" } }

\* C1: in every reachable state the identifiers of the Presence Store (the
\* users of the state file) are exactly the keys of the Connection Registry.
C1_StoresAgree == Keys(file) = Keys(sockets)

\* C2: right after a hello with a non-empty id from connection c, the
\* Registry maps id to c (under one key only) and the presence snapshot holds
\* exactly one entry with that id, carrying the hello's name and avatar.
C2_HelloRegisters ==
  EvHelloWithId(ev) =>
    LET id == MeId(ev.text.val)
    IN /\ Holder(sockets, id) = ev.conn
       /\ Cardinality(At(sockets, id)) = 1
       /\ Cardinality(At(loadOnline, id)) = 1
       /\ \A i \in At(loadOnline, id) : loadOnline[i] = ev.text.val.me[1]

\* C2 witness: a hello took over an identifier that another connection had
\* registered before.
C2_Witness ==
  /\ EvHelloWithId(ev)
  /\ \E c \in Conns : c # ev.conn /\ myId[c] = MeId(ev.text.val)
  /\ \E i \in DOMAIN file : file[i] = ev.text.val.me[1] /\ file[i].name = "n2"

\* C3: an offer/answer/ice/end whose `to` is registered with an open channel
\* is delivered once, to that channel only, with its fields unchanged, and
\* neither store changes; the sender may be bound or not.
C3_ForwardDelivers ==
  [][ (EvForward(ev') /\ At(sockets, ev'.text.val.to) # {}
         /\ status[Holder(sockets, ev'.text.val.to)] = "open")
      => /\ Len(out') = 1
         /\ out'[1].to = Holder(sockets, ev'.text.val.to)
         /\ out'[1].data.ok
         /\ JSONparse(out'[1].data) = JSONparse(ev'.text)
         /\ sockets' = sockets
         /\ file' = file ]_vars

\* C3 witness: a connection that never bound an identity had its offer
\* delivered to another connection.
C3_Witness ==
  /\ EvForward(ev)
  /\ myId[ev.conn] = NoId
  /\ Len(out) = 1
  /\ out[1].to # ev.conn
  /\ out[1].data.val.type = "offer"

\* C4: an offer/answer/ice/end whose `to` is no key of the Registry (a
\* missing `to` included) reaches no channel, raises nothing and changes
\* neither store nor any connection.
C4_UnknownRecipientDropped ==
  [][ (EvForward(ev') /\ At(sockets, ev'.text.val.to) = {})
      => /\ out' = <<>>
         /\ crashed' = crashed
         /\ UNCHANGED <<sockets, file, status, myId, isAlive>> ]_vars

\* C4 witness: a message for an identifier nobody holds was handled while
\* another identifier was registered on an open channel.
C4_Witness ==
  /\ EvForward(ev)
  /\ ev.text.val.to # NoId
  /\ At(sockets, ev.text.val.to) = {}
  /\ OpenRegistered(sockets, status) # {}
  /\ out = <<>>
  /\ ~crashed

\* C5: the close of a connection bound to id removes id from both stores and
\* triggers exactly one broadcast, whose user list is the snapshot without
\* id, sent to the open registered channels; the close of a connection with
\* no bound identity changes neither store and broadcasts nothing.
C5_CloseUnregisters ==
  [][ ev'.op = "close"
      => LET c == ev'.conn
             id == myId[c]
         IN IF id # NoId
            THEN /\ At(sockets', id) = {}
                 /\ At(file', id) = {}
                 /\ Len(bcasts') = 1
                 /\ At(bcasts'[1], id) = {}
                 /\ bcasts'[1] = file'
                 /\ Receivers(out') = OpenRegistered(sockets', status')
                 /\ \A i \in DOMAIN out' : out'[i].data.val.users = bcasts'[1]
            ELSE /\ sockets' = sockets
                 /\ file' = file
                 /\ bcasts' = <<>>
                 /\ out' = <<>> ]_vars

\* C5 witness: a bound connection closed and another connection received the
\* broadcast.
C5_Witness ==
  /\ ev.op = "close"
  /\ myId[ev.conn] # NoId
  /\ Len(out) = 1
  /\ Len(file) = 1

\* C6: at a sweep tick, every registered connection whose last probe is
\* still unanswered (isAlive is false: line 140 set it with the probe of an
\* earlier tick, and no pong of either kind has set it back) is evicted: its
\* channel is no longer open, its identifier has left both stores, and the one
\* broadcast that ends the tick lists the users without it.
C6_SweepEvicts ==
  [][ ev'.op = "tick"
      => \A i \in DOMAIN sockets :
           isAlive[sockets[i].ws] = FALSE
           => /\ status'[sockets[i].ws] # "open"
              /\ At(sockets', sockets[i].id) = {}
              /\ At(file', sockets[i].id) = {}
              /\ Len(bcasts') = 1
              /\ At(bcasts'[1], sockets[i].id) = {}
              /\ \A j \in DOMAIN out' : At(out'[j].data.val.users, sockets[i].id) = {} ]_vars

\* C6 witness: a tick terminated an open connection that had not answered,
\* and told a connection that stays.
C6_Witness ==
  /\ ev.op = "tick"
  /\ \E c \in Conns : status[c] = "closing" /\ ~isAlive[c] /\ myId[c] # NoId
                      /\ At(sockets, myId[c]) = {}
  /\ out # <<>>

\* C7: a hello whose id is missing or empty changes nothing: not the Registry,
\* not the Presence Store, not the sender's bound identity, and it sends and
\* broadcasts nothing.
C7_EmptyHelloChangesNothing ==
  [][ EvHelloNoId(ev')
      => /\ UNCHANGED <<sockets, file, myId, status, isAlive>>
         /\ out' = <<>>
         /\ bcasts' = <<>> ]_vars

\* C8: a payload that is no JSON, or JSON whose type is absent or unknown
\* (null, numbers, strings and arrays included), raises nothing, changes no
\* store and no connection, and is answered by nothing.
C8_MalformedDropped ==
  [][ (/\ ev'.op = "message"
       /\ \/ ~ev'.text.ok
          \/ ev'.text.val.kind # "object"
          \/ ev'.text.val.type \notin (FwdTypes \cup {"hello", "pong"}))
      => /\ crashed' = crashed
         /\ UNCHANGED <<sockets, file, myId, status, isAlive>>
         /\ out' = <<>> ]_vars

\* C9: when the write of the state file fails during a hello, a close or a
\* sweep eviction, no error escapes the handler, the stores end as they do
\* when the write succeeds (the identifier in both after a hello, in neither
\* after a close or an eviction), and the broadcast is still issued.
C9_WriteFailureHarmless ==
  [][ ~WriteOk
      => /\ EvHelloWithId(ev')
            => /\ ~crashed'
               /\ At(sockets', MeId(ev'.text.val)) # {}
               /\ At(file', MeId(ev'.text.val)) # {}
               /\ Len(bcasts') = 1
         /\ (ev'.op = "close" /\ myId[ev'.conn] # NoId)
            => /\ ~crashed'
               /\ At(sockets', myId[ev'.conn]) = {}
               /\ At(file', myId[ev'.conn]) = {}
               /\ Len(bcasts') = 1
         /\ ev'.op = "tick"
            => /\ ~crashed'
               /\ \A i \in DOMAIN sockets :
                    isAlive[sockets[i].ws] = FALSE
                    => At(sockets', sockets[i].id) = {} /\ At(file', sockets[i].id) = {}
               /\ Len(bcasts') = 1 ]_vars

\* C10: a hello with a non-empty id triggers one broadcast, received by every
\* open channel of the Registry, the registering connection included, whose
\* user list is exactly the set of identifiers registered at that moment.
C10_HelloBroadcast ==
  EvHelloWithId(ev) =>
    /\ Len(bcasts) = 1
    /\ Receivers(out) = OpenRegistered(sockets, status)
    /\ ev.conn \in Receivers(out)
    /\ \A i \in DOMAIN out :
         /\ out[i].data.val.type = "online"
         /\ Keys(out[i].data.val.users) = Keys(sockets)

\* A step of the sweep that evicts: the tick takes an entry out of the Registry.
TickEvicts == ev'.op = "tick" /\ Keys(sockets') # Keys(sockets)

\* C11: the status query changes neither store nor any connection and sends
\* nothing; it answers with the users of the Presence Store as they are, and
\* no step other than a hello, a close or a sweep eviction changes those, so
\* two queries with none of these between them give identical user lists.
C11_StatusQueryPure ==
  [][ /\ ev'.op = "online"
         => /\ UNCHANGED <<sockets, file, status, myId, isAlive, crashed>>
            /\ out' = <<>> /\ bcasts' = <<>>
            /\ Len(res') = 1
            /\ res'[1].val.users = file
      /\ ~(EvHello(ev') \/ ev'.op = "close" \/ TickEvicts)
         => file' = file ]_vars

\* C11 witness: a status query answered with two users.
C11_Witness ==
  /\ ev.op = "online"
  /\ Len(res) = 1
  /\ Len(res[1].val.users) = 2
  /\ Len(sockets) = 1

\* C12: when connection B registers an identifier that the Registry maps to
\* another connection A, A is no longer bound to it, and the later close of a
\* connection whose identifier the Registry maps to another connection
\* removes nothing from either store.
C12_TakeoverDetaches ==
  [][ /\ EvHelloWithId(ev')
         => LET id == MeId(ev'.text.val)
                a == Holder(sockets, id)
            IN (a # NoConn /\ a # ev'.conn) => myId'[a] # id
      /\ (/\ ev'.op = "close"
          /\ myId[ev'.conn] # NoId
          /\ At(sockets, myId[ev'.conn]) # {}
          /\ Holder(sockets, myId[ev'.conn]) # ev'.conn)
         => sockets' = sockets /\ file' = file ]_vars

\* C13: the sweep leaves alone every registered connection that has no
\* unanswered probe when the tick starts (isAlive is true): the tick neither
\* terminates it nor takes any of its entries out of the Registry.
C13_NoFalseEviction ==
  [][ ev'.op = "tick"
      => \A i \in DOMAIN sockets :
           isAlive[sockets[i].ws] = TRUE
           => /\ status'[sockets[i].ws] = status[sockets[i].ws]
              /\ Holder(sockets', sockets[i].id) = sockets[i].ws ]_vars

\* C14: every sweep tick issues exactly one broadcast, made after the
\* evictions and probes of the tick, whatever the number of evictions: its
\* user list is the Presence Store as the tick leaves it, none of the
\* identifiers the tick took out of the Registry is in it, and it goes to the
\* registered channels that are open once the tick has terminated the dead.
C14_TickBroadcastsOnce ==
  [][ ev'.op = "tick"
      => /\ Len(bcasts') = 1
         /\ bcasts'[1] = file'
         /\ \A id \in Keys(sockets) \ Keys(sockets') : At(bcasts'[1], id) = {}
         /\ Receivers(out') = OpenRegistered(sockets', status')
         /\ Len(out') = Cardinality({ i \in DOMAIN sockets' : status'[sockets'[i].ws] = "open" })
         /\ \A i \in DOMAIN out' : out'[i].data.val.users = bcasts'[1] ]_vars

\* C14 witness: a tick evicted both connections and made its one broadcast.
C14_Witness ==
  /\ ev.op = "tick"
  /\ sockets = <<>>
  /\ \A c \in Conns : status[c] = "closing" /\ myId[c] # NoId
  /\ myId[1] # myId[2]
  /\ Len(bcasts) = 1

\* C15: a broadcast sends one and the same payload, built from one snapshot
\* of the Presence Store, to every Registry entry whose channel is open, in
\* Registry order; entries whose channel is not open are skipped and the
\* entries after them are still served; the stores are as the broadcast read
\* them.
C15_BroadcastSkipsClosed ==
  Len(bcasts) = 1
  => LET open == SelectSeq(sockets, LAMBDA e : status[e.ws] = "open")
     IN /\ Len(out) = Len(open)
        /\ \A i \in DOMAIN out :
             /\ out[i].to = open[i].ws
             /\ out[i].data = out[1].data
             /\ out[i].data.val.type = "online"
             /\ out[i].data.val.users = bcasts[1]
        /\ bcasts[1] = file

\* C15 witness: a broadcast skipped a channel that is not open and served an
\* open channel registered after it.
C15_Witness ==
  /\ Len(bcasts) = 1
  /\ Len(sockets) = 2
  /\ status[sockets[1].ws] # "open"
  /\ status[sockets[2].ws] = "open"
  /\ Len(out) = 1

\* C16: Registry entries agree with connection bindings: for every entry
\* id -> c of the Registry, the bound identity of connection c is id.
C16_RegistryAgreesWithBinding ==
  \A i \in DOMAIN sockets : myId[sockets[i].ws] = sockets[i].id

\* C17: after a connection's close event has been processed, no Registry entry
\* maps an identifier to that connection, whatever hello messages it sent
\* before closing.
C17_ClosedLeavesNothing ==
  \A c \in Conns :
    status[c] = "closed" => \A i \in DOMAIN sockets : sockets[i].ws # c

\* C18: a registration is only removed by its owner's departure: while the
\* Registry maps id to c, a step keeps that mapping and c's presence entry
\* unless it is c's close, a sweep tick that evicts c, a hello for id from
\* another connection, or a message of c itself.
C18_OnlyOwnerRemoves ==
  [][ \A i \in DOMAIN sockets :
        LET id == sockets[i].id
            c == sockets[i].ws
        IN (\/ Holder(sockets', id) # c
            \/ At(file', id) # At(file, id))
           => \/ ev'.conn = c
              \/ ev'.op = "tick" /\ status'[c] # status[c]
              \/ EvHelloWithId(ev') /\ MeId(ev'.text.val) = id ]_vars

\* An identifier with a live connection: the Registry maps it to an open channel.
Live(id) == Holder(sockets, id) # NoConn /\ status[Holder(sockets, id)] = "open"

\* C19: with sweep ticks occurring for ever, an identifier that is in the
\* Presence Store without a live connection is eventually out of both the
\* Registry and the Presence Store, or has a live connection again, unless
\* the process has died: no identifier without a live connection stays in the
\* user list of a running server for ever.
C19_DeparturesEventuallyReflected ==
  \A id \in Ids :
    (At(file, id) # {} /\ ~Live(id))
      ~> ((At(file, id) = {} /\ At(sockets, id) = {}) \/ Live(id) \/ crashed)
====
